---- MODULE Spec2Model ----
(***************************************************************************)
(* Model of src/mongo_backup.py: the resumable, rate-limited collection    *)
(* copy (backup_collection), its checkpoint file (log_last_doc /           *)
(* find_docs_to_update), the rate governor (balance_rate), the stop flag   *)
(* (read_config / check_stop_flag) and the connection registry (get_db /   *)
(* close_connections).                                                     *)
(***************************************************************************)
EXTENDS Integers, Sequences, FiniteSets, TLC

(***************************************************************************)
(* Bounds of the model.                                                    *)
(***************************************************************************)
\* number of bytes of an ObjectId (12 in bson; the model keeps the low ones)
OidBytes == 1
\* largest number of documents in the source collection
MaxDocs == 3
\* largest value of 'rate' an operator writes in a configuration file
MaxRate == 2
\* number of processes started one after another
MaxRuns == 2
\* number of flushes of the pass the rate governor is followed through
MaxFlushes == 3

\* low bytes of the ObjectIds of the documents that may exist, in the order
\* of their creation: their hex strings are "07" (a YAML octal), "0a" (a YAML
\* string), "10" (a YAML int), "1b", "20"
PoolSeq == <<7, 10, 16, 27, 32>>

PoolBytes == { PoolSeq[i] : i \in 1..MaxDocs }

(***************************************************************************)
(* ObjectId, str(ObjectId) and ObjectId(str).                              *)
(***************************************************************************)
HexChars == <<"0", "1", "2", "3", "4", "5", "6", "7",
              "8", "9", "a", "b", "c", "d", "e", "f">>

\* an ObjectId is its sequence of bytes
MkOid(b) == [i \in 1..OidBytes |-> IF i = OidBytes THEN b ELSE 0]

IdPool == { MkOid(b) : b \in PoolBytes }

\* bson compares ObjectIds by their bytes, first byte first
RECURSIVE SeqLess(_, _)
SeqLess(x, y) ==
    IF x = <<>> \/ y = <<>> THEN x = <<>> /\ y # <<>>
    ELSE IF Head(x) # Head(y) THEN Head(x) < Head(y)
    ELSE SeqLess(Tail(x), Tail(y))

OidGt(x, y) == SeqLess(y, x)

\* str(oid): two lower-case hex characters for each byte
OidStr(oid) ==
    [i \in 1..(2 * Len(oid)) |->
        IF i % 2 = 1 THEN HexChars[(oid[(i + 1) \div 2] \div 16) + 1]
        ELSE HexChars[(oid[i \div 2] % 16) + 1]]

HexVal(c) == CHOOSE k \in 0..15 : HexChars[k + 1] = c

IsHexChar(c) == \E k \in 1..16 : HexChars[k] = c

\* ObjectId(s) accepts exactly the strings of 2 * OidBytes hex characters
ValidOidStr(s) ==
    /\ Len(s) = 2 * OidBytes
    /\ \A i \in 1..Len(s) : IsHexChar(s[i])

ParseOid(s) ==
    [i \in 1..(Len(s) \div 2) |-> 16 * HexVal(s[2 * i - 1]) + HexVal(s[2 * i])]

(***************************************************************************)
(* yaml.dump and yaml.load of the scalars of the progress file.            *)
(***************************************************************************)
DecDigits == {"0", "1", "2", "3", "4", "5", "6", "7", "8", "9"}
OctDigits == {"0", "1", "2", "3", "4", "5", "6", "7"}
BinDigits == {"0", "1"}

AllIn(s, from, chars) == \A i \in from..Len(s) : s[i] \in chars

\* the implicit resolver of plain scalars: the patterns of tag int that a
\* string of hex characters can match (0b.., 0<octal>, 0, <decimal>)
ResolvesToInt(s) ==
    \/ Len(s) >= 3 /\ s[1] = "0" /\ s[2] = "b" /\ AllIn(s, 3, BinDigits)
    \/ Len(s) >= 2 /\ s[1] = "0" /\ AllIn(s, 2, OctDigits)
    \/ s = <<"0">>
    \/ Len(s) >= 1 /\ s[1] \in (DecDigits \ {"0"}) /\ AllIn(s, 2, DecDigits)

\* the empty plain scalar resolves to null
ResolvesToNull(s) == s = <<>>

\* a dump that never quotes
YamlDumpPlain(s) == [style |-> "plain", text |-> s]

\* yaml.dump of a str: quoted when the plain scalar would not load as a str
YamlDumpStr(s) ==
    [style |-> IF ResolvesToInt(s) \/ ResolvesToNull(s) THEN "quoted" ELSE "plain",
     text  |-> s]

\* yaml.load of a scalar: the Python value it denotes
YamlLoadScalar(e) ==
    IF e.style = "quoted" THEN [type |-> "str", text |-> e.text]
    ELSE IF ResolvesToInt(e.text) THEN [type |-> "int", text |-> e.text]
    ELSE IF ResolvesToNull(e.text) THEN [type |-> "none", text |-> e.text]
    ELSE [type |-> "str", text |-> e.text]

EmptyStr == [type |-> "str", text |-> <<>>]


(***************************************************************************)
(* State.                                                                  *)
(***************************************************************************)
VARIABLES
    \* the process: position in main / backup_collection, exit status, the
    \* exception that ended it, number of processes started so far
    pc, status, error, runs,
    \* arguments of backup_collection
    coll_src, coll_dest, condition, config_path,
    \* files and collections (they outlive a process)
    cfgFiles, progress, srcColl, destColl,
    \* locals of backup_collection and find_docs_to_update
    config, docs, cursorOpen, start_id, current_docs, ret,
    \* module globals
    CONNECTIONS, LAST_TIME,
    \* the clients MongoClient() created and the ones closed
    clients, closed,
    \* wall clock (milliseconds) and the record of the governor's returns
    now, procTime, prevReturn, lastReturn, governed,
    \* history of the current pass
    pulled, flushes, firstFailed, logCount, ratesSeen, stopAtStart,
    \* history across processes
    attempted, prevCheckpoint, lastLogged,
    \* the flush of the pass in which a file operation failed (0: none)
    ioFailedAt,
    \* main: the global DEFAULT_CONFIG_FILE, the `collections` of the
    \* configuration main reads, and the collections backup_collection was
    \* called for
    DEFAULT_CONFIG_FILE, configured, invoked

procVars  == <<pc, status, error, runs>>
argVars   == <<coll_src, coll_dest, condition, config_path>>
localVars == <<config, docs, cursorOpen, start_id, current_docs, ret>>
connVars  == <<CONNECTIONS, clients, closed>>
timeVars  == <<LAST_TIME, now, procTime, prevReturn, lastReturn, governed>>
passVars  == <<pulled, flushes, firstFailed, logCount, ratesSeen, stopAtStart>>
histVars  == <<attempted, prevCheckpoint, lastLogged>>
mainVars  == <<DEFAULT_CONFIG_FILE, configured, invoked>>

vars == <<pc, status, error, runs, coll_src, coll_dest, condition, config_path,
          cfgFiles, progress, srcColl, destColl,
          config, docs, cursorOpen, start_id, current_docs, ret,
          CONNECTIONS, LAST_TIME, clients, closed,
          now, procTime, prevReturn, lastReturn, governed,
          pulled, flushes, firstFailed, logCount, ratesSeen, stopAtStart,
          attempted, prevCheckpoint, lastLogged,
          ioFailedAt, DEFAULT_CONFIG_FILE, configured, invoked>>

(***************************************************************************)
(* Domains.                                                                *)
(***************************************************************************)
\* collection names
Names == {"a", "b"}

\* the calls of backup_collection: main's (db_src[name] to db_dest[name], no
\* config_path) and the one of line 297 (log_traffic to log_traffic_2 of the
\* same database, with a config_path)
Calls == { [src |-> "a", dest |-> "a", config_path |-> "none"],
           [src |-> "a", dest |-> "b", config_path |-> "custom"] }

\* configuration files: DEFAULT_CONFIG_FILE and the one a caller passes
Paths == {"default", "custom"}

Rates == 1..MaxRate

Configs == [rate : Rates, stop : BOOLEAN]

\* the 'condition' of a collection: none, or {'method': 'object_id'}
Conditions == {"none", "object_id"}

\* hosts of the connection strings
Hosts == {"src_host", "dest_host"}

NoEntry == [style |-> "absent", text |-> <<>>]

NoConfig == [rate |-> 0, stop |-> FALSE]

NoValue == [type |-> "unset", text |-> <<>>]

Range(s) == { s[i] : i \in 1..Len(s) }

RECURSIVE Flatten(_)
Flatten(ss) == IF ss = <<>> THEN <<>> ELSE Head(ss) \o Flatten(Tail(ss))

IsAscending(s) == \A i, j \in 1..Len(s) : i < j => OidGt(s[j], s[i])

Running == pc \notin {"off", "finished", "exited", "crashed", "raised"}


(***************************************************************************)
(* Files.                                                                  *)
(***************************************************************************)
\* yaml.dump({}): a progress file holding the empty mapping
EmptyYaml == [state |-> "ok", map |-> [n \in Names |-> NoEntry]]

\* a file opened for writing and not written yet
Truncated == [state |-> "empty", map |-> [n \in Names |-> NoEntry]]

Absent == [state |-> "absent", map |-> [n \in Names |-> NoEntry]]

\* create_file_if_not_exists: an existing file is left as it is
CreateFileIfNotExists(f, content) == IF f.state = "absent" THEN content ELSE f

\* yaml.load(input).get(name, '')
DictGet(f, name) ==
    IF f.map[name] = NoEntry THEN EmptyStr ELSE YamlLoadScalar(f.map[name])

\* read_config(path): path or DEFAULT_CONFIG_FILE
ConfigFileOf(path) == IF path = "none" THEN "default" ELSE path

\* check_stop_flag: TRUE when it closes the connections and exits
CheckStopFlagNever(cfg) == FALSE

CheckStopFlag(cfg) == cfg.stop

(***************************************************************************)
(* find_docs_to_update.                                                    *)
(***************************************************************************)
\* coll.find(): the collection in natural (insertion) order
FindAll(coll) == coll

\* a query with $gte where the code has $gt
FindGte(coll, oid) == SelectSeq(coll, LAMBDA d : ~SeqLess(d, oid))

\* coll.find({"_id": {"$gt": oid}})
FindGt(coll, oid) == SelectSeq(coll, LAMBDA d : OidGt(d, oid))

Found(ds, sid, f) ==
    [kind |-> "cursor", docs |-> ds, error |-> "", start_id |-> sid, file |-> f]

Raises(e, sid, f) ==
    [kind |-> "raise", docs |-> <<>>, error |-> e, start_id |-> sid, file |-> f]

FindDocsToUpdate(coll, name, cond, f) ==
    IF cond = "none" THEN Found(FindAll(coll), NoValue, f)
    ELSE LET g == CreateFileIfNotExists(f, EmptyYaml) IN
         \* an empty file loads as None, and None has no get
         IF g.state = "empty" THEN Raises("AttributeError", NoValue, g)
         ELSE LET sid == DictGet(g, name) IN
              IF sid = EmptyStr THEN Found(FindAll(coll), sid, g)
              \* ObjectId(None) is a fresh identifier, greater than the
              \* stored ones
              ELSE IF sid.type = "none" THEN Found(<<>>, sid, g)
              ELSE IF sid.type # "str" THEN Raises("TypeError", sid, g)
              ELSE IF ~ValidOidStr(sid.text) THEN Raises("InvalidId", sid, g)
              ELSE Found(FindGt(coll, ParseOid(sid.text)), sid, g)

(***************************************************************************)
(* log_last_doc.                                                           *)
(***************************************************************************)
\* a log_last_doc that writes a mapping holding the new entry alone
LogLastDocFresh(f, name, doc_id) ==
    [kind |-> "ok", error |-> "",
     file |-> [EmptyYaml EXCEPT !.map[name] = YamlDumpStr(doc_id)]]

LogLastDoc(f, name, doc_id) ==
    LET g == CreateFileIfNotExists(f, EmptyYaml) IN
    \* progress is None: the item assignment raises
    IF g.state = "empty" THEN [kind |-> "raise", error |-> "TypeError", file |-> g]
    ELSE [kind  |-> "ok", error |-> "",
          file  |-> [g EXCEPT !.map[name] = YamlDumpStr(doc_id)]]

(***************************************************************************)
(* insert_to_dest and the loop of backup_collection.                       *)
(***************************************************************************)
\* the statements of insert_to_dest with the checkpoint recorded first
FlushOrderLogFirst == <<"log", "insert", "balance", "reread", "clear">>

\* the statements of insert_to_dest with the governor called before the
\* checkpoint is recorded
FlushOrderBalanceFirst == <<"insert", "balance", "log", "reread", "clear">>

\* the statements of insert_to_dest with the configuration re-read, and its
\* stop check, first
FlushOrderRereadFirst == <<"reread", "insert", "log", "balance", "clear">>

\* the statements of insert_to_dest, in order
FlushOrder == <<"insert", "log", "balance", "reread", "clear">>

FlushEntry == FlushOrder[1]

FlushIndex(step) == CHOOSE i \in 1..Len(FlushOrder) : FlushOrder[i] = step

\* the statement after `step`; after the last one insert_to_dest returns to
\* the loop (line 290) or to the end of backup_collection (line 293)
AfterStep(step, r) ==
    IF FlushIndex(step) < Len(FlushOrder) THEN FlushOrder[FlushIndex(step) + 1]
    ELSE IF r = "loop" THEN "loop" ELSE "bc_done"

\* a bulk-write error that propagates
BulkWriteHandlerRaise(failed) == IF failed THEN "raise" ELSE "continue"

\* try: insert_many ... except Exception: pass
BulkWriteHandler(failed) == "continue"

\* the batch is flushed when only it is over the rate
BatchFullOver(cur, cfg) == Len(cur) > cfg.rate

\* if len(current_docs) >= config['rate']
BatchFull(cur, cfg) == Len(cur) >= cfg.rate

\* the last batch is forgotten
EndOfStreamDrop(cur) == "bc_done"

\* after the loop: if len(current_docs) != 0: insert_to_dest()
EndOfStream(cur) == IF Len(cur) # 0 THEN FlushEntry ELSE "bc_done"

\* the identifier of the first document of the batch
LastDocIdFirst(cur) == OidStr(cur[1])

\* doc_id = str(current_docs[-1]['_id'])
LastDocId(cur) == OidStr(cur[Len(cur)])

(***************************************************************************)
(* get_db and close_connections.                                           *)
(***************************************************************************)
\* CONNECTIONS.index(client): MongoClient compares by address; index raises
\* ValueError when no element equals client, and the append is skipped
GetDbRegister(conns, client) ==
    IF \E i \in 1..Len(conns) : conns[i].address = client.address
    THEN Append(conns, client)
    ELSE conns

\* close_connections: the clients it closes
CloseConnections(conns) == { conns[i].id : i \in 1..Len(conns) }


(***************************************************************************)
(* Initial state: no process has run, the progress file does not exist,    *)
(* both collections are empty.                                             *)
(***************************************************************************)
InitData ==
    /\ status = -1 /\ error = "" /\ runs = 0
    /\ cfgFiles = [p \in Paths |-> [rate |-> MaxRate, stop |-> FALSE]]
    /\ progress = Absent
    /\ srcColl = <<>> /\ destColl = {}
    /\ config = NoConfig /\ docs = <<>> /\ cursorOpen = FALSE
    /\ start_id = NoValue /\ current_docs = <<>> /\ ret = ""
    /\ CONNECTIONS = <<>> /\ clients = {} /\ closed = {}
    /\ LAST_TIME = 0 /\ now = 0 /\ procTime = 0
    /\ prevReturn = -1 /\ lastReturn = -1 /\ governed = 0
    /\ pulled = <<>> /\ flushes = <<>> /\ firstFailed = 0 /\ logCount = 0
    /\ ratesSeen = {} /\ stopAtStart = FALSE
    /\ attempted = {} /\ prevCheckpoint = NoValue /\ lastLogged = NoValue
    /\ ioFailedAt = 0
    /\ DEFAULT_CONFIG_FILE = "default" /\ invoked = <<>>

Init ==
    /\ pc = "off"
    /\ \E call \in Calls :
          /\ coll_src = call.src /\ coll_dest = call.dest
          /\ config_path = call.config_path
    /\ condition \in Conditions
    /\ configured = {coll_src}
    /\ InitData

(***************************************************************************)
(* The environment: the operator and the source database.                  *)
(***************************************************************************)
\* a document is inserted in the source collection between two processes;
\* it gets the next ObjectId
AddDoc(d) ==
    /\ UNCHANGED <<ioFailedAt, mainVars>>
    /\ ~Running
    /\ Len(srcColl) < MaxDocs
    /\ d = MkOid(PoolSeq[Len(srcColl) + 1])
    /\ srcColl' = Append(srcColl, d)
    /\ UNCHANGED <<procVars, argVars, cfgFiles, progress, destColl, localVars,
                   connVars, timeVars, passVars, histVars>>

\* the operator rewrites a configuration file the process reads (rate, stop
\* flag); the edits are interleaved where the process is about to read a
\* configuration: an edit made earlier is seen by the same read
EditConfig(p, c) ==
    /\ UNCHANGED <<ioFailedAt, mainVars>>
    /\ pc \in {"main_cfg", "bc_config", "reread"}
    /\ p = "default" \/ (config_path = "custom" /\ pc # "main_cfg")
    /\ cfgFiles[p] # c
    /\ cfgFiles' = [cfgFiles EXCEPT ![p] = c]
    /\ UNCHANGED <<procVars, argVars, progress, srcColl, destColl, localVars,
                   connVars, timeVars, passVars, histVars>>

\* a process is started: a caller runs lines 372-385 for one collection
StartProcess ==
    /\ ioFailedAt' = 0
    /\ invoked' = <<>>
    /\ UNCHANGED <<DEFAULT_CONFIG_FILE, configured>>
    /\ ~Running
    /\ runs < MaxRuns
    /\ pc' = "main_cfg" /\ status' = -1 /\ error' = "" /\ runs' = runs + 1
    /\ config' = NoConfig /\ docs' = <<>> /\ cursorOpen' = FALSE
    /\ start_id' = NoValue /\ current_docs' = <<>> /\ ret' = ""
    /\ CONNECTIONS' = <<>> /\ clients' = {} /\ closed' = {}
    /\ LAST_TIME' = now
    /\ pulled' = <<>> /\ flushes' = <<>> /\ firstFailed' = 0 /\ logCount' = 0
    /\ ratesSeen' = {} /\ stopAtStart' = FALSE
    /\ prevCheckpoint' = IF progress.state = "ok" /\ progress.map[coll_dest] # NoEntry
                         THEN YamlLoadScalar(progress.map[coll_dest])
                         ELSE NoValue
    /\ UNCHANGED <<argVars, cfgFiles, progress, srcColl, destColl,
                   now, procTime, prevReturn, lastReturn, governed,
                   attempted, lastLogged>>

\* the process is killed: its memory is lost, the files and the collections
\* stay; a kill inside log_last_doc may leave the progress file opened for
\* writing and not written
Crash(trunc) ==
    /\ ioFailedAt' = 0
    /\ invoked' = <<>>
    /\ UNCHANGED <<DEFAULT_CONFIG_FILE, configured>>
    /\ Running
    /\ pc' = "crashed" /\ status' = 137
    /\ IF trunc
       THEN /\ pc = "log" /\ progress.state # "empty"
            /\ progress' = Truncated
            /\ lastLogged' = NoValue
       ELSE UNCHANGED <<progress, lastLogged>>
    /\ config' = NoConfig /\ docs' = <<>> /\ cursorOpen' = FALSE
    /\ start_id' = NoValue /\ current_docs' = <<>> /\ ret' = ""
    /\ CONNECTIONS' = <<>> /\ clients' = {} /\ closed' = {}
    /\ pulled' = <<>> /\ flushes' = <<>> /\ firstFailed' = 0 /\ logCount' = 0
    /\ ratesSeen' = {} /\ stopAtStart' = FALSE
    /\ UNCHANGED <<error, runs, argVars, cfgFiles, srcColl, destColl,
                   timeVars, attempted, prevCheckpoint>>

(***************************************************************************)
(* check_stop_flag's exit: close_connections(), sys.exit(0).               *)
(***************************************************************************)
ExitGracefully ==
    /\ pc' = "exited" /\ status' = 0
    /\ closed' = closed \cup CloseConnections(CONNECTIONS)
    /\ UNCHANGED <<CONNECTIONS, clients>>

(***************************************************************************)
(* The caller of backup_collection (main, lines 372-385).                  *)
(***************************************************************************)
\* config = read_config()
MainReadConfig ==
    /\ UNCHANGED <<ioFailedAt, mainVars>>
    /\ pc = "main_cfg"
    /\ IF CheckStopFlag(cfgFiles[ConfigFileOf("none")])
       THEN ExitGracefully
       ELSE /\ pc' = "get_db_src"
            /\ UNCHANGED <<status, connVars>>
    /\ UNCHANGED <<error, runs, argVars, cfgFiles, progress, srcColl, destColl,
                   localVars, timeVars, passVars, histVars>>

\* get_db(conn_str), for the source and then for the destination; after
\* the second one main calls backup_collection (line 379)
GetDb(host) ==
    /\ invoked' = IF pc = "get_db_dest" THEN Append(invoked, coll_src) ELSE invoked
    /\ UNCHANGED <<ioFailedAt, DEFAULT_CONFIG_FILE, configured>>
    /\ \/ pc = "get_db_src" /\ host = "src_host"
       \/ pc = "get_db_dest" /\ host = "dest_host"
    /\ LET client == [id |-> Cardinality(clients) + 1, address |-> host] IN
       /\ clients' = clients \cup {client}
       /\ CONNECTIONS' = GetDbRegister(CONNECTIONS, client)
    /\ pc' = IF pc = "get_db_src" THEN "get_db_dest" ELSE "bc_config"
    /\ UNCHANGED <<status, error, runs, argVars, cfgFiles, progress, srcColl,
                   destColl, localVars, closed, timeVars, passVars, histVars>>

\* close_connections() after the loop over the collections; the process ends
MainClose ==
    /\ UNCHANGED <<ioFailedAt, mainVars>>
    /\ pc = "bc_done"
    /\ pc' = "finished" /\ status' = 0
    /\ closed' = closed \cup CloseConnections(CONNECTIONS)
    /\ UNCHANGED <<error, runs, argVars, cfgFiles, progress, srcColl, destColl,
                   localVars, CONNECTIONS, clients, timeVars, passVars, histVars>>


(***************************************************************************)
(* backup_collection.                                                      *)
(***************************************************************************)
\* line 249: config = read_config(path=config_path)
BcReadConfig ==
    /\ UNCHANGED <<ioFailedAt, mainVars>>
    /\ pc = "bc_config"
    /\ LET c == cfgFiles[ConfigFileOf(config_path)] IN
       /\ stopAtStart' = c.stop
       /\ IF CheckStopFlag(c)
          THEN /\ ExitGracefully
               /\ UNCHANGED <<config, ratesSeen>>
          ELSE /\ pc' = "bc_find"
               /\ config' = c
               /\ ratesSeen' = {c.rate}
               /\ UNCHANGED <<status, connVars>>
    /\ UNCHANGED <<error, runs, argVars, cfgFiles, progress, srcColl, destColl,
                   docs, cursorOpen, start_id, current_docs, ret, timeVars,
                   pulled, flushes, firstFailed, logCount, histVars>>

\* lines 250-261: docs = find_docs_to_update(coll_src, condition), then
\* update_last_time()
BcFind ==
    /\ UNCHANGED <<ioFailedAt, mainVars>>
    /\ pc = "bc_find"
    /\ LET r == FindDocsToUpdate(srcColl, coll_src, condition, progress) IN
       /\ progress' = r.file
       /\ start_id' = r.start_id
       /\ IF r.kind = "raise"
          THEN /\ pc' = "raised" /\ status' = 1 /\ error' = r.error
               /\ UNCHANGED <<docs, cursorOpen, LAST_TIME>>
          ELSE /\ pc' = "loop"
               /\ docs' = r.docs
               /\ cursorOpen' = TRUE
               /\ LAST_TIME' = now
               /\ UNCHANGED <<status, error>>
    /\ UNCHANGED <<runs, argVars, cfgFiles, srcColl, destColl, config,
                   current_docs, ret, connVars, now, procTime, prevReturn,
                   lastReturn, governed, passVars, histVars>>

\* lines 287-293: one iteration of `for doc in docs`, or the end of the loop
Loop ==
    /\ UNCHANGED <<ioFailedAt, mainVars>>
    /\ pc = "loop"
    /\ IF docs # <<>>
       THEN LET cur == Append(current_docs, Head(docs)) IN
            /\ current_docs' = cur
            /\ pulled' = Append(pulled, Head(docs))
            /\ docs' = Tail(docs)
            /\ IF BatchFull(cur, config)
               THEN pc' = FlushEntry /\ ret' = "loop"
               ELSE pc' = "loop" /\ ret' = ret
       ELSE /\ pc' = EndOfStream(current_docs)
            /\ ret' = "end"
            /\ UNCHANGED <<current_docs, pulled, docs>>
    /\ UNCHANGED <<status, error, runs, argVars, cfgFiles, progress, srcColl,
                   destColl, config, cursorOpen, start_id, connVars, timeVars,
                   flushes, firstFailed, logCount, ratesSeen, stopAtStart, histVars>>

\* lines 273-276: coll_dest.insert_many(current_docs, ordered=False); the
\* documents of `written` are written, the others fail (a document the
\* destination already holds fails with a duplicate key)
InsertMany(written) ==
    /\ UNCHANGED <<ioFailedAt, mainVars>>
    /\ pc = "insert"
    /\ written \subseteq (Range(current_docs) \ destColl)
    /\ LET failed == written # Range(current_docs) IN
       /\ destColl' = destColl \cup written
       /\ flushes' = Append(flushes, current_docs)
       /\ attempted' = attempted \cup Range(current_docs)
       /\ firstFailed' = IF failed /\ firstFailed = 0 THEN Len(flushes) + 1
                         ELSE firstFailed
       /\ IF BulkWriteHandler(failed) = "raise"
          THEN pc' = "raised" /\ status' = 1 /\ error' = "BulkWriteError"
          ELSE pc' = AfterStep("insert", ret) /\ UNCHANGED <<status, error>>
    /\ UNCHANGED <<runs, argVars, cfgFiles, progress, srcColl, localVars,
                   connVars, timeVars, pulled, logCount, ratesSeen, stopAtStart,
                   prevCheckpoint, lastLogged>>

\* lines 278-281: log_last_doc(coll_dest.name, str(current_docs[-1]['_id']))
LogStep ==
    /\ UNCHANGED <<ioFailedAt, mainVars>>
    /\ pc = "log"
    /\ LET k == LastDocId(current_docs)
           r == LogLastDoc(progress, coll_dest, k) IN
       /\ progress' = r.file
       /\ IF r.kind = "raise"
          THEN /\ pc' = "raised" /\ status' = 1 /\ error' = r.error
               /\ UNCHANGED <<logCount, lastLogged>>
          ELSE /\ pc' = AfterStep("log", ret)
               /\ logCount' = logCount + 1
               /\ lastLogged' = [type |-> "str", text |-> k]
               /\ UNCHANGED <<status, error>>
    /\ UNCHANGED <<runs, argVars, cfgFiles, srcColl, destColl, localVars,
                   connVars, timeVars, pulled, flushes, firstFailed, ratesSeen,
                   stopAtStart, attempted, prevCheckpoint>>

\* line 283: balance_rate(); the wall clock is modelled in SpecRate
BalanceStep ==
    /\ UNCHANGED <<ioFailedAt, mainVars>>
    /\ pc = "balance"
    /\ pc' = AfterStep("balance", ret)
    /\ UNCHANGED <<status, error, runs, argVars, cfgFiles, progress, srcColl,
                   destColl, localVars, connVars, timeVars, passVars, histVars>>

\* line 284: config = read_config(), which reads DEFAULT_CONFIG_FILE
ReReadConfig ==
    /\ UNCHANGED <<ioFailedAt, mainVars>>
    /\ pc = "reread"
    /\ LET c == cfgFiles[ConfigFileOf("none")] IN
       /\ ratesSeen' = ratesSeen \cup {c.rate}
       /\ IF CheckStopFlag(c)
          THEN /\ ExitGracefully
               /\ UNCHANGED config
          ELSE /\ pc' = AfterStep("reread", ret)
               /\ config' = c
               /\ UNCHANGED <<status, connVars>>
    /\ UNCHANGED <<error, runs, argVars, cfgFiles, progress, srcColl, destColl,
                   docs, cursorOpen, start_id, current_docs, ret, timeVars,
                   pulled, flushes, firstFailed, logCount, stopAtStart, histVars>>

\* insert_to_dest returns with the batch left as it is
ClearBatchKeep ==
    /\ pc = "clear"
    /\ pc' = AfterStep("clear", ret)
    /\ UNCHANGED <<status, error, runs, argVars, cfgFiles, progress, srcColl,
                   destColl, localVars, connVars, timeVars, passVars, histVars,
                   ioFailedAt, mainVars>>

\* line 285: current_docs = []
ClearBatch ==
    /\ UNCHANGED <<ioFailedAt, mainVars>>
    /\ pc = "clear"
    /\ current_docs' = <<>>
    /\ pc' = AfterStep("clear", ret)
    /\ UNCHANGED <<status, error, runs, argVars, cfgFiles, progress, srcColl,
                   destColl, config, docs, cursorOpen, start_id, ret, connVars,
                   timeVars, passVars, histVars>>

Next ==
    \/ \E d \in IdPool : AddDoc(d)
    \/ \E p \in Paths, c \in Configs : EditConfig(p, c)
    \/ StartProcess
    \/ \E t \in BOOLEAN : Crash(t)
    \/ MainReadConfig
    \/ \E h \in Hosts : GetDb(h)
    \/ BcReadConfig
    \/ BcFind
    \/ Loop
    \/ \E w \in SUBSET IdPool : InsertMany(w)
    \/ LogStep
    \/ BalanceStep
    \/ ReReadConfig
    \/ ClearBatch
    \/ MainClose

Spec == Init /\ [][Next]_vars


(***************************************************************************)
(* The engine on a file system whose operations may fail (SpecIO): inside  *)
(* log_last_doc an open, a read or a write of the progress file raises     *)
(* OSError.                                                                *)
(***************************************************************************)
\* the file operation of log_last_doc that raises: the open of line 52
\* (followed by a rewrite that works, or by one whose open or whose write
\* raises too), the open and load of lines 227-228, the open of line 232,
\* the write of line 233
IOFaults == {"probe", "probe_open_w", "probe_write", "read", "open_w", "write"}

\* create_file_if_not_exists when its open(path, 'r') raises: `except
\* Exception` takes every error for a missing file and writes `content`
CreateFileOnReadError(f, content) == content

\* log_last_doc with one failing file operation
LogLastDocFault(f, name, doc_id, fault) ==
    LET oserror(file) == [kind |-> "raise", error |-> "OSError", file |-> file]
        g == CreateFileIfNotExists(f, EmptyYaml) IN
    CASE fault = "probe"        ->
            LogLastDoc(CreateFileOnReadError(f, EmptyYaml), name, doc_id)
      [] fault = "probe_open_w" -> oserror(f)
      [] fault = "probe_write"  -> oserror(Truncated)
      [] fault = "read"         -> oserror(g)
      [] fault = "open_w"       -> oserror(g)
      [] fault = "write"        -> oserror(Truncated)

\* lines 278-281 with the failing file operation `fault`; the probe of line
\* 52 fails for another reason than a missing file, and the writes of lines
\* 232-233 are reached only when the load gave a mapping
LogStepFault(fault) ==
    /\ pc = "log"
    /\ fault \in {"probe", "probe_open_w", "probe_write"} => progress.state # "absent"
    /\ fault \in {"open_w", "write"} =>
           CreateFileIfNotExists(progress, EmptyYaml).state = "ok"
    /\ ioFailedAt' = Len(flushes)
    /\ LET k == LastDocId(current_docs)
           r == LogLastDocFault(progress, coll_dest, k, fault) IN
       /\ progress' = r.file
       /\ IF r.kind = "raise"
          THEN /\ pc' = "raised" /\ status' = 1 /\ error' = r.error
               /\ lastLogged' = IF r.file.state = "ok" THEN lastLogged ELSE NoValue
               /\ UNCHANGED logCount
          ELSE /\ pc' = AfterStep("log", ret)
               /\ logCount' = logCount + 1
               /\ lastLogged' = [type |-> "str", text |-> k]
               /\ UNCHANGED <<status, error>>
    /\ UNCHANGED <<runs, argVars, cfgFiles, srcColl, destColl, localVars,
                   connVars, timeVars, pulled, flushes, firstFailed, ratesSeen,
                   stopAtStart, attempted, prevCheckpoint, mainVars>>

NextIO ==
    \/ Next
    \/ \E fault \in IOFaults : LogStepFault(fault)

SpecIO == Init /\ [][NextIO]_vars


(***************************************************************************)
(* The program entry point as it is written (SpecMain): main() from the    *)
(* command line to the end of the process.  The statements after line 370  *)
(* are the caller that Spec models.                                        *)
(***************************************************************************)
InitMain ==
    /\ pc = "main_off"
    /\ coll_src = "a" /\ coll_dest = "a" /\ config_path = "none"
    /\ condition = "none"
    /\ configured = {}
    /\ InitData

\* the operator writes the rate and the stop flag of a configuration file,
\* and the `collections` of the file main will be started with
WriteConfig(p, c, colls) ==
    /\ pc = "main_off"
    /\ cfgFiles' = [cfgFiles EXCEPT ![p] = c]
    /\ configured' = colls
    /\ UNCHANGED <<pc, status, error, runs, argVars, progress, srcColl, destColl,
                   localVars, connVars, timeVars, passVars, histVars,
                   ioFailedAt, DEFAULT_CONFIG_FILE, invoked>>

\* line 364: set_global_params(read_cmd_args()); --config is given or left
\* to its default, which is the default file
MainSetGlobalParams(arg) ==
    /\ pc = "main_off"
    /\ pc' = "main_print"
    /\ runs' = runs + 1
    /\ DEFAULT_CONFIG_FILE' = arg
    /\ UNCHANGED <<status, error, argVars, cfgFiles, progress, srcColl, destColl,
                   localVars, connVars, timeVars, passVars, histVars,
                   ioFailedAt, configured, invoked>>

\* lines 366-368: the three prints
MainPrint ==
    /\ pc = "main_print"
    /\ pc' = "main_exit"
    /\ UNCHANGED <<status, error, runs, argVars, cfgFiles, progress, srcColl,
                   destColl, localVars, connVars, timeVars, passVars, histVars,
                   ioFailedAt, mainVars>>

\* line 370: sys.exit(0)
MainExit ==
    /\ pc = "main_exit"
    /\ pc' = "main_exited" /\ status' = 0
    /\ UNCHANGED <<error, runs, argVars, cfgFiles, progress, srcColl,
                   destColl, localVars, connVars, timeVars, passVars, histVars,
                   ioFailedAt, mainVars>>

NextMain ==
    \/ \E p \in Paths, c \in Configs, colls \in SUBSET Names : WriteConfig(p, c, colls)
    \/ \E arg \in Paths : MainSetGlobalParams(arg)
    \/ MainPrint
    \/ MainExit

SpecMain == InitMain /\ [][NextMain]_vars


(***************************************************************************)
(* log_last_doc on its own (SpecLog): the collections of a configuration   *)
(* are copied one after another, and each flush of a pass records an       *)
(* identifier under the name of the collection being copied.               *)
(***************************************************************************)
InitLog ==
    /\ pc = "log_off"
    /\ coll_src = "a" /\ coll_dest = "a" /\ config_path = "none"
    /\ condition = "none"
    /\ configured = Names
    /\ InitData

\* the progress files earlier runs can have left: none, one opened for
\* writing and not written, or a mapping
ProgressFiles ==
    {Absent, Truncated} \cup
    { [state |-> "ok", map |-> m] :
        m \in [Names -> {NoEntry} \cup { YamlDumpStr(OidStr(d)) : d \in IdPool }] }

\* earlier runs have left the progress file f
EarlierRuns(f) ==
    /\ pc = "log_off" /\ progress = Absent
    /\ progress' = f
    /\ UNCHANGED <<pc, status, error, runs, argVars, cfgFiles, srcColl, destColl,
                   localVars, connVars, timeVars, passVars, histVars,
                   ioFailedAt, mainVars>>

\* log_last_doc(c, str(d)): a flush of the pass that copies collection c
LogCall(c, d) ==
    /\ pc \in {"log_off", "logged"}
    /\ logCount < MaxFlushes
    /\ \/ c \in Range(invoked) /\ invoked[Len(invoked)] = c /\ invoked' = invoked
       \/ c \notin Range(invoked) /\ invoked' = Append(invoked, c)
    /\ LET r == LogLastDoc(progress, c, OidStr(d)) IN
       /\ progress' = r.file
       /\ coll_src' = c /\ coll_dest' = c
       /\ IF r.kind = "raise"
          THEN /\ pc' = "raised" /\ status' = 1 /\ error' = r.error
               /\ UNCHANGED <<logCount, lastLogged>>
          ELSE /\ pc' = "logged"
               /\ logCount' = logCount + 1
               /\ lastLogged' = [type |-> "str", text |-> OidStr(d)]
               /\ UNCHANGED <<status, error>>
    /\ UNCHANGED <<runs, condition, config_path, cfgFiles, srcColl, destColl,
                   localVars, connVars, timeVars, pulled, flushes, firstFailed,
                   ratesSeen, stopAtStart, attempted, prevCheckpoint,
                   ioFailedAt, DEFAULT_CONFIG_FILE, configured>>

NextLog ==
    \/ \E f \in ProgressFiles : EarlierRuns(f)
    \/ \E c \in Names, d \in IdPool : LogCall(c, d)

SpecLog == InitLog /\ [][NextLog]_vars


(***************************************************************************)
(* The rate governor on the wall clock (SpecRate).  The clock counts       *)
(* microseconds, as datetime does; a pass is the call of update_last_time  *)
(* (line 261) followed by flushes, each a stretch of batch processing and  *)
(* then balance_rate() (line 283).                                         *)
(***************************************************************************)
MicrosPerMilli == 1000

\* unit = unit or 1000
DEFAULT_UNIT == 1000

\* how long (in microseconds) pulling, writing and checkpointing one batch,
\* or starting the pass, may take
Durations == {500, 400500, 1000000, 1300000}

\* by how much (in microseconds) time.sleep may return late
Oversleeps == {0, 700}

\* milisecs_passed: int((dt.now() - LAST_TIME).total_seconds() * 1000)
MilisecsPassed(t, last) == (t - last) \div MicrosPerMilli

\* time.sleep((unit - delta) / 1000), in milliseconds
SleepMillis(delta, unit) == unit - delta

\* a governor that sets LAST_TIME on every call
UpdatesLastTimeAlways(delta, unit) == TRUE

\* update_last_time() is inside `if delta < unit`
UpdatesLastTime(delta, unit) == delta < unit

engineVars == <<status, error, runs, argVars, cfgFiles, progress, srcColl, destColl,
                localVars, connVars, passVars, histVars, ioFailedAt, mainVars>>

InitRate ==
    /\ pc = "rate_idle"
    /\ coll_src = "a" /\ coll_dest = "a" /\ config_path = "none"
    /\ condition = "none"
    /\ configured = {"a"}
    /\ InitData

\* lines 249-261: the pass starts d microseconds after the module was loaded
\* (LAST_TIME = dt.now(), line 44) and calls update_last_time()
RateStart(d) ==
    /\ pc = "rate_idle"
    /\ now' = now + d
    /\ LAST_TIME' = now'
    /\ pc' = "rate_work"
    /\ UNCHANGED <<procTime, prevReturn, lastReturn, governed, engineVars>>

\* the batch is pulled, written and checkpointed in d microseconds
RateWork(d) ==
    /\ pc = "rate_work"
    /\ governed < MaxFlushes
    /\ now' = now + d
    /\ procTime' = d
    /\ pc' = "rate_balance"
    /\ UNCHANGED <<LAST_TIME, prevReturn, lastReturn, governed, engineVars>>

\* lines 152-163: balance_rate()
BalanceRate(over) ==
    /\ pc = "rate_balance"
    /\ LET unit  == DEFAULT_UNIT
           delta == MilisecsPassed(now, LAST_TIME) IN
       /\ IF delta < unit
          THEN now' = now + SleepMillis(delta, unit) * MicrosPerMilli + over
          ELSE now' = now /\ over = 0
       /\ LAST_TIME' = IF UpdatesLastTime(delta, unit) THEN now' ELSE LAST_TIME
    /\ prevReturn' = lastReturn
    /\ lastReturn' = now'
    /\ governed' = governed + 1
    /\ pc' = "rate_work"
    /\ UNCHANGED <<procTime, engineVars>>

NextRate ==
    \/ \E d \in Durations : RateStart(d)
    \/ \E d \in Durations : RateWork(d)
    \/ \E over \in Oversleeps : BalanceRate(over)

SpecRate == InitRate /\ [][NextRate]_vars


(***************************************************************************)
(* Properties.                                                             *)
(***************************************************************************)
\* backup_collection has returned
Completed == pc = "bc_done"

UnitMicros == DEFAULT_UNIT * MicrosPerMilli

\* the checkpoint the progress file holds for the destination collection
CheckpointRecorded == progress.state = "ok" /\ progress.map[coll_dest] # NoEntry

Checkpoint == YamlLoadScalar(progress.map[coll_dest])

\* C1 (batch completeness): when a pass completes and every configuration
\* read of the pass gave the same rate B >= 1, insert_to_dest ran exactly
\* ceil(N/B) times for the N documents the cursor yielded, and the batches
\* passed to bulk-write, put end to end, are the yielded documents: each
\* document is in exactly one flush, none is dropped.
C1_BatchCompleteness ==
    Completed =>
        \A B \in Rates :
            ratesSeen = {B} =>
                /\ docs = <<>>
                /\ Len(flushes) = (Len(pulled) + B - 1) \div B
                /\ Flatten(flushes) = pulled

\* a completed pass at rate 2 over 3 documents: a full batch and a partial one
C1_Witness ==
    /\ pc = "bc_done" /\ ratesSeen = {2}
    /\ Len(pulled) = 3 /\ Len(flushes) = 2 /\ Len(flushes[2]) = 1

\* C2 (resume monotonicity): a process using object_id never pulls from its
\* cursor a document whose identifier is less than or equal to the checkpoint
\* recorded for the collection when the previous process ended.
C2_ResumeMonotonicity ==
    (condition = "object_id" /\ prevCheckpoint.type = "str"
        /\ ValidOidStr(prevCheckpoint.text)) =>
        \A i \in 1..Len(pulled) : OidGt(pulled[i], ParseOid(prevCheckpoint.text))

\* C3 (checkpoint durability): once log_last_doc(c, k) has returned, reading
\* the progress file gives k for c, in this process and in the ones started
\* later, until the next log_last_doc for c.
C3_CheckpointDurability ==
    lastLogged # NoValue =>
        /\ progress.state = "ok"
        /\ DictGet(progress, coll_dest) = lastLogged

\* a second process is about to read the checkpoint "10" (a string that a
\* plain YAML scalar would turn into an integer) the first one recorded
C3_Witness ==
    /\ runs = 2 /\ pc = "bc_find" /\ condition = "object_id"
    /\ lastLogged = [type |-> "str", text |-> <<"1", "0">>]

\* C4 (graceful stop at Idle): when the configuration backup_collection reads
\* at its start has the stop flag set, no cursor is opened, no document is
\* pulled, nothing is bulk-written, no checkpoint is written, and the process
\* has exited with status 0.
C4_GracefulStopAtIdle ==
    stopAtStart =>
        /\ pc = "exited" /\ status = 0
        /\ ~cursorOpen /\ pulled = <<>>
        /\ flushes = <<>> /\ logCount = 0

\* the stop flag was set at the start of a pass over a non-empty collection
C4_Witness ==
    /\ stopAtStart /\ pc = "exited"
    /\ Len(srcColl) > 0 /\ clients # {}

\* C5 (rate governance bound): when the batch processing between two
\* consecutive returns of balance_rate took less than the unit, the two
\* returns are at least one unit apart.
C5_RateGovernanceBound ==
    (pc = "rate_work" /\ governed >= 2 /\ procTime < UnitMicros) =>
        lastReturn - prevReturn >= UnitMicros

\* C6, as claimed (checkpoint validity): the checkpoint recorded for the
\* destination collection is the identifier of a document that was written
\* to the destination collection.
C6_CheckpointIsWritten ==
    CheckpointRecorded =>
        /\ Checkpoint.type = "str" /\ ValidOidStr(Checkpoint.text)
        /\ ParseOid(Checkpoint.text) \in destColl

\* C6, as amended: the checkpoint recorded for the destination collection is
\* the identifier of a document that has been passed to bulk-write; it is
\* written only after the flush's bulk-write call has returned, whether the
\* write succeeded or failed.
C6_CheckpointIsAttempted ==
    CheckpointRecorded =>
        /\ Checkpoint.type = "str" /\ ValidOidStr(Checkpoint.text)
        /\ ParseOid(Checkpoint.text) \in attempted

\* the checkpoint names a document whose bulk-write failed
C6_Witness ==
    /\ CheckpointRecorded
    /\ ParseOid(Checkpoint.text) \in attempted \ destColl

\* C7 (at-least-once resume): with object_id and a source in ascending
\* identifier order, when a process completes its pass, after any number of
\* earlier processes that were stopped or killed and any documents added in
\* between, every source document has been passed to bulk-write.
C7_AtLeastOnceResume ==
    (Completed /\ condition = "object_id" /\ IsAscending(srcColl)) =>
        Range(srcColl) \subseteq attempted

\* the second process resumed after a recorded checkpoint, pulled only the
\* documents after it, and completed
C7_Witness ==
    /\ runs = 2 /\ pc = "bc_done" /\ condition = "object_id"
    /\ start_id.type = "str" /\ start_id # EmptyStr
    /\ Len(pulled) >= 1 /\ Len(pulled) < Len(srcColl)

\* C8 (connections closed on shutdown): when the process has exited through
\* the stop flag or has completed, every client get_db created is closed.
C8_ConnectionsClosed ==
    pc \in {"exited", "finished"} => \A c \in clients : c.id \in closed

\* C9 (resume condition): the cursor find_docs_to_update opens is over all
\* the documents when there is no condition, or when the method is object_id
\* and the collection has no checkpoint or an empty one; with object_id and a
\* checkpoint v it is over exactly the documents with an identifier greater
\* than v.  The checkpoint is the entry of the progress file under the name
\* of the collection given to find_docs_to_update.
C9_ResumeCondition ==
    (cursorOpen /\ Running) =>
        /\ (condition = "object_id" /\ logCount = 0) =>
               start_id = DictGet(progress, coll_src)
        /\ pulled \o docs =
               IF condition = "none" \/ start_id = EmptyStr THEN srcColl
               ELSE SelectSeq(srcColl,
                              LAMBDA d : SeqLess(ParseOid(start_id.text), d))

\* a cursor opened after a recorded checkpoint: some documents, not all
C9_Witness ==
    /\ cursorOpen /\ Running /\ condition = "object_id"
    /\ start_id.type = "str" /\ start_id # EmptyStr
    /\ Len(pulled \o docs) >= 1 /\ Len(pulled \o docs) < Len(srcColl)

\* C10 (bulk-write errors are suppressed): no pass ends with a bulk-write
\* error, and a completed pass has passed every batch to bulk-write exactly
\* once, the batches after a failed one included.
C10_BulkWriteErrorsSuppressed ==
    /\ error # "BulkWriteError"
    /\ firstFailed > 0 => (pc = "raised" => error \in {"TypeError"})
    /\ Completed => Flatten(flushes) = pulled

\* a pass completed although a bulk-write failed, and flushed later batches
C10_Witness ==
    /\ pc = "bc_done" /\ firstFailed > 0
    /\ Len(flushes) > firstFailed


\* C11: a failure of a read or of a write of the checkpoint store during a
\* flush is fatal: the pass has ended with that error, no batch was
\* bulk-written after the failed flush, and no checkpoint was recorded by
\* the failed flush.
C11_PersistenceFailureFatal ==
    ioFailedAt > 0 =>
        /\ pc = "raised" /\ error = "OSError"
        /\ Len(flushes) = ioFailedAt
        /\ logCount < ioFailedAt


\* C12: after every flush whose checkpoint step has returned, the entry of
\* the destination collection is the string of the identifier of the last
\* document of the batch passed to bulk-write, whatever the bulk-write did;
\* after a completed pass over one document or more it is the identifier of
\* the last document the cursor yielded.
C12_CheckpointAttemptedUpTo ==
    /\ (logCount >= 1 /\ logCount = Len(flushes)) =>
           LET batch == flushes[Len(flushes)] IN
           /\ CheckpointRecorded
           /\ Checkpoint = [type |-> "str", text |-> OidStr(batch[Len(batch)])]
    /\ (Completed /\ Len(pulled) >= 1) =>
           /\ CheckpointRecorded
           /\ Checkpoint = [type |-> "str", text |-> OidStr(pulled[Len(pulled)])]

\* a completed pass of two batches, one of which failed to be written
C12_Witness ==
    /\ Completed /\ Len(flushes) >= 2 /\ firstFailed > 0
    /\ Len(flushes[Len(flushes)]) >= 2
    /\ CheckpointRecorded
    /\ Checkpoint.text = OidStr(pulled[Len(pulled)])


\* C13 (governor postcondition): when balance_rate has returned, LAST_TIME
\* is the time of the return, whether the call slept or not.
C13_GovernorPostcondition ==
    (pc = "rate_work" /\ governed >= 1) => LAST_TIME = lastReturn


FlushStepOrder ==
    LET goesOn == pc' # pc /\ pc' \notin {"crashed", "raised", "exited"} IN
    /\ (pc = "loop" /\ pc' \notin {"loop", "bc_done"} /\ goesOn) => pc' = "insert"
    /\ (pc = "insert" /\ goesOn) => (pc' = "log" /\ Len(flushes') = Len(flushes) + 1)
    /\ (pc = "log" /\ goesOn) => (pc' = "balance" /\ logCount' = logCount + 1)
    /\ (pc = "balance" /\ goesOn) => pc' = "reread"
    /\ (pc = "reread" /\ goesOn) => pc' = "clear"
    /\ (pc = "clear" /\ goesOn) => (pc' \in {"loop", "bc_done"} /\ current_docs' = <<>>)
    /\ Len(flushes') > Len(flushes) => pc = "insert"
    /\ logCount' > logCount => pc = "log"
    /\ Len(pulled') > Len(pulled) => pc = "loop"

\* when the governor is called, and until the flush returns, the checkpoint
\* of the batch is persisted; a document is pulled, and a batch is
\* bulk-written, only when every earlier batch has its checkpoint
CheckpointBeforeGovernor ==
    /\ pc \in {"balance", "reread", "clear"} =>
           /\ logCount = Len(flushes)
           /\ CheckpointRecorded
           /\ Checkpoint.text = OidStr(current_docs[Len(current_docs)])
    /\ Len(pulled) > Len(Flatten(flushes)) => logCount = Len(flushes)
    /\ Len(flushes) <= logCount + 1

\* C15 (flush step ordering): within every flush the steps occur in the
\* order bulk-write, checkpoint record, governor call, configuration
\* re-read, batch clear; the checkpoint of batch k is persisted before the
\* governor is called and before a document of batch k+1 is pulled or
\* bulk-written.
C15_FlushStepOrdering == [][FlushStepOrder]_vars /\ []CheckpointBeforeGovernor

\* the first document of the second batch has been pulled, the checkpoint of
\* the first batch being in the file
C15_Witness ==
    /\ pc = "loop" /\ Len(flushes) = 1 /\ logCount = 1
    /\ Len(pulled) = Len(flushes[1]) + 1
    /\ CheckpointRecorded
    /\ Checkpoint.text = OidStr(flushes[1][Len(flushes[1])])


\* C16 (checkpoint key consistency): the entry read to resolve the resume
\* condition of a pass is the entry its flushes write, the one under the
\* destination collection's name: until the first checkpoint of the pass is
\* recorded, the start identifier the pass holds is that entry's value.
C16_CheckpointKeyConsistency ==
    (cursorOpen /\ Running /\ condition = "object_id" /\ logCount = 0) =>
        start_id = DictGet(progress, coll_dest)


\* main has run to the end of the process, without a stop
MainEnded == pc \in {"main_exited", "finished"}

\* C17: when main has run to its end with a configuration whose stop flag
\* is not set, backup_collection was called once for each configured
\* collection.
C17_MainCopiesEveryCollection ==
    (MainEnded /\ ~cfgFiles[DEFAULT_CONFIG_FILE].stop) =>
        /\ Range(invoked) = configured
        /\ Len(invoked) = Cardinality(configured)


\* C18, as claimed (batch bound): in every state of a pass the batch in
\* memory holds no more documents than the rate of the configuration the
\* engine holds.
C18_BatchBound ==
    config # NoConfig => Len(current_docs) <= config.rate

\* C18, as amended: the bound holds in every state of a pass but the one
\* between the configuration re-read and the batch clear of a flush, where
\* the batch is within a rate the pass has read before.
C18_BatchBoundOutsideReread ==
    config # NoConfig =>
        IF pc # "clear" THEN Len(current_docs) <= config.rate
        ELSE \E r \in ratesSeen : Len(current_docs) <= r

\* the rate was lowered after a batch of two documents, and the next batch
\* is flushed with one document
C18_Witness ==
    /\ pc = "insert" /\ Len(flushes) = 1 /\ Len(flushes[1]) = 2
    /\ config.rate = 1 /\ Len(current_docs) = 1 /\ ret = "loop"


\* C19 (graceful stop leaves nothing unflushed): when the process has exited
\* through the stop flag after the pass started streaming, every document
\* pulled from the cursor was passed to bulk-write and the checkpoint in the
\* file is the identifier of the last document pulled.
C19_StopLeavesNothingUnflushed ==
    (pc = "exited" /\ cursorOpen) =>
        /\ Flatten(flushes) = pulled
        /\ CheckpointRecorded
        /\ Checkpoint = [type |-> "str", text |-> OidStr(pulled[Len(pulled)])]

\* the process was stopped in the middle of the stream, after two documents
C19_Witness ==
    /\ pc = "exited" /\ cursorOpen /\ status = 0
    /\ docs # <<>> /\ Len(pulled) = 2
    /\ Range(pulled) \subseteq attempted


\* a call of log_last_doc that returned leaves the entry of every other
\* collection as it was, and the entry of its collection holds the
\* identifier it was given
LogLastDocFrame ==
    logCount' = logCount + 1 =>
        /\ progress'.state = "ok"
        /\ \A n \in Names \ {coll_dest'} : progress'.map[n] = progress.map[n]
        /\ YamlLoadScalar(progress'.map[coll_dest']) = lastLogged'

\* every collection copied so far has its checkpoint in the file
EarlierCheckpointsKept ==
    pc = "logged" =>
        \A n \in Range(invoked) : progress.state = "ok" /\ progress.map[n] # NoEntry

\* C20 (checkpoint frame): log_last_doc(c, k) changes the entry of
\* collection c alone, so that copying several collections in sequence
\* never loses the checkpoint of an earlier collection.
C20_CheckpointFrame == [][LogLastDocFrame]_vars /\ []EarlierCheckpointsKept

\* three checkpoints were recorded, for the first collection and then for
\* the second, and the first collection's last one is still in the file
C20_Witness ==
    /\ pc = "logged" /\ logCount = 3 /\ invoked = <<"a", "b">>
    /\ coll_dest = "b"
    /\ YamlLoadScalar(progress.map["a"]).text = OidStr(MkOid(PoolSeq[2]))
    /\ YamlLoadScalar(progress.map["b"]) = lastLogged

====
